---- MODULE Spec2Model ----
(***************************************************************************)
(* Model of @n3arby/play-integrity-verifier.                               *)
(*                                                                         *)
(*   src/src/verifier.ts    verifyPlayIntegrity(token, credentials,        *)
(*                          expectedPackageName): the current variant      *)
(*   src/unnamed/part_000   verifyPlayIntegrity(token, credentials): the   *)
(*                          superseded JWT + axios variant                 *)
(*                                                                         *)
(* An async function runs synchronously up to its first await and resumes  *)
(* when the awaited promise settles, so every invocation is a small state  *)
(* machine: one action for the synchronous entry, one per way an awaited   *)
(* promise can settle.  JavaScript values are records tagged with "type";  *)
(* strings are sequences of symbols so that trim(), truthiness and         *)
(* template-literal concatenation are computed, not assumed.               *)
(***************************************************************************)
EXTENDS Naturals, Sequences, FiniteSets, TLC

\* ------------------------------------------------------------------ bounds
\* Longest string drawn for a package name (expected or returned).
MaxLen == 2
\* Number of invocations that may be in flight together (SpecConcurrent).
NumCalls == 2

\* ------------------------------------------------------- JavaScript values
Undefined == [type |-> "undefined"]
Null == [type |-> "null"]
Str(s) == [type |-> "string", chars |-> s]

\* A string is a sequence of symbols; a literal fragment of the source is one
\* symbol, a character of a package name is one symbol.
Alphabet == {" ", "a"}
Strings(n) == UNION {[1..k -> Alphabet] : k \in 0..n}

IsString(v) == v.type = "string"
IsNullish(v) == v.type \in {"undefined", "null"}

\* ToBoolean: undefined, null and the empty string are falsy; every other
\* string and every object is truthy.
Truthy(v) ==
  CASE IsNullish(v) -> FALSE
    [] IsString(v) -> v.chars # <<>>
    [] OTHER -> TRUE

\* String.prototype.trim on the symbols of a string.
RECURSIVE TrimStart(_)
TrimStart(s) ==
  IF s = <<>> THEN s
  ELSE IF Head(s) = " " THEN TrimStart(Tail(s)) ELSE s

RECURSIVE TrimEnd(_)
TrimEnd(s) ==
  IF s = <<>> THEN s
  ELSE IF s[Len(s)] = " " THEN TrimEnd(SubSeq(s, 1, Len(s) - 1)) ELSE s

Trim(s) == TrimEnd(TrimStart(s))

\* `${v}` in a template literal.
ToText(v) ==
  CASE IsString(v) -> v.chars
    [] v.type = "undefined" -> <<"undefined">>
    [] v.type = "null" -> <<"null">>
    [] OTHER -> <<"[object Object]">>

\* a?.f : undefined when a is undefined or null, else the property.
OptPackageName(group) ==
  IF IsNullish(group) THEN Undefined ELSE group.packageName

OptRequestPackageName(group) ==
  IF IsNullish(group) THEN Undefined ELSE group.requestPackageName

\* ------------------------------------------------------------------ errors
Prefix == "Play Integrity verification failed: "
RequiredMsg == <<"Expected package name is required">>
NoPayloadMsg == <<"No token payload received from Play Integrity API">>
UnknownMsg == <<"Unknown error">>
NoAccessTokenMsg == <<"Failed to obtain access token">>
CredentialsTypeErrorMsg ==
  <<"Cannot read properties of undefined (reading 'clientEmail')">>

NewError(msg) == [type |-> "Error", message |-> msg]
InstanceOfError(e) == e.type \in {"Error", "AxiosError"}

PackageMismatchMsg(exp, got) ==
  <<"Package name mismatch: expected ">> \o ToText(exp) \o <<", got ">> \o ToText(got)

RequestMismatchMsg(exp, got) ==
  <<"Request package name mismatch: expected ">> \o ToText(exp)
    \o <<", got ">> \o ToText(got)

\* Mutant: the catch block rethrows the cause's text without the prefix.
WrapNoPrefix(e) ==
  IF InstanceOfError(e) THEN NewError(e.message) ELSE NewError(UnknownMsg)

\* The catch block of verifier.ts.
Wrap(e) ==
  IF InstanceOfError(e)
    THEN NewError(<<Prefix>> \o e.message)
    ELSE NewError(<<Prefix>> \o UnknownMsg)

\* ------------------------------------------------------- completions
Return(v) == [kind |-> "return", value |-> v]
Throw(e) == [kind |-> "throw", error |-> e]

Pending == [kind |-> "pending"]
Resolved(v) == [kind |-> "resolved", value |-> v]
Rejected(e) == [kind |-> "rejected", error |-> e]

\* ------------------------------------------------------------- input sets
Tokens == {"T1", "T2"}

ServiceAccount(n) ==
  [type |-> "object", clientEmail |-> n, privateKey |-> n]
Credentials == {Undefined, ServiceAccount("sa1"), ServiceAccount("sa2")}

PackageNames == {Str(s) : s \in Strings(MaxLen)}
ExpectedNames == {Undefined} \cup PackageNames

OptNames == {Undefined} \cup PackageNames
Verdicts == {Undefined, Str(<<"PLAY_RECOGNIZED">>)}

AppIntegrityGroups ==
  {Undefined} \cup
  {[type |-> "object", packageName |-> n, appRecognitionVerdict |-> v] :
     n \in OptNames, v \in Verdicts}

RequestDetailsGroups ==
  {Undefined} \cup {[type |-> "object", requestPackageName |-> n] : n \in OptNames}

Payloads ==
  {[type |-> "object", appIntegrity |-> a, requestDetails |-> r] :
     a \in AppIntegrityGroups, r \in RequestDetailsGroups}

\* What response.data.tokenPayloadExternal may hold.
PayloadFields == {Undefined, Null, Str(<<>>)} \cup Payloads
ResponseData == {[tokenPayloadExternal |-> p] : p \in PayloadFields}

\* What an awaited collaborator may reject with: Error objects, and a value
\* that is no Error (the case the last line of the catch block handles).
ThrownErrors == {NewError(<<"PERMISSION_DENIED">>), NewError(<<"invalid_grant">>)}
ThrownValues == ThrownErrors \cup {Str(<<"boom">>)}

Scope == "https://www.googleapis.com/auth/playintegrity"

\* ------------------------------------------------------------------- state
Calls == 1..NumCalls
MainCall == 1

VARIABLES
  pc,                   \* pc[c]: "idle", "authorizing", "awaiting", "done"
  token,                \* token[c]: the argument
  credentials,          \* credentials[c]: the argument
  expectedPackageName,  \* expectedPackageName[c]: the argument
  authClients,          \* authClients[c]: the auth clients the call built
  requests,             \* requests[c]: the decode requests the call issued
  response,             \* response[c]: how the awaited decode settled
  caught,               \* caught[c]: the value the catch block received
  outcome,              \* outcome[c]: how the returned promise settled
  authorization         \* authorization[c]: how jwtClient.authorize() settled (part_000)

vars == <<pc, token, credentials, expectedPackageName, authClients, requests,
          response, caught, outcome, authorization>>

NotSettled == [settled |-> "no"]
Fulfilled(d) == [settled |-> "fulfilled", data |-> d]
Failed(e) == [settled |-> "rejected", reason |-> e]
NothingCaught == [type |-> "none"]

Init ==
  /\ pc = [c \in Calls |-> "idle"]
  /\ token = [c \in Calls |-> "T1"]
  /\ credentials = [c \in Calls |-> Undefined]
  /\ expectedPackageName = [c \in Calls |-> Undefined]
  /\ authClients = [c \in Calls |-> <<>>]
  /\ requests = [c \in Calls |-> <<>>]
  /\ response = [c \in Calls |-> NotSettled]
  /\ caught = [c \in Calls |-> NothingCaught]
  /\ outcome = [c \in Calls |-> Pending]
  /\ authorization = [c \in Calls |-> NotSettled]

\* ---------------------------------------------- verifier.ts, current variant
\* Mutant: the check without its trim() half.
ValidationFailsNoTrim(exp) == ~Truthy(exp)

\* if (!expectedPackageName || expectedPackageName.trim() === '')

ValidationFails(exp) == ~Truthy(exp) \/ Trim(exp.chars) = <<>>

\* new GoogleAuth({credentials: {client_email, private_key}, scopes: [...]})
GoogleAuth(cred) ==
  [client_email |-> cred.clientEmail, private_key |-> cred.privateKey,
   scopes |-> <<Scope>>]

\* Mutant: the request sent without the packageName parameter.
DecodeRequestNoPackage(tok, exp) ==
  [packageName |-> Undefined, integrityToken |-> tok]

\* The arguments of playIntegrity.v1.decodeIntegrityToken.
DecodeRequest(tok, exp) == [packageName |-> exp, integrityToken |-> tok]

\* The promise settles from a completion of the try block: a return resolves
\* it, a throw goes through the catch block.
Settle(c, completion) ==
  /\ pc' = [pc EXCEPT ![c] = "done"]
  /\ IF completion.kind = "return"
       THEN /\ outcome' = [outcome EXCEPT ![c] = Resolved(completion.value)]
            /\ UNCHANGED caught
       ELSE /\ outcome' = [outcome EXCEPT ![c] = Rejected(Wrap(completion.error))]
            /\ caught' = [caught EXCEPT ![c] = completion.error]

\* The call, up to the await of decodeIntegrityToken.
Invoke(c, tok, cred, exp) ==
  /\ pc[c] = "idle"
  /\ token' = [token EXCEPT ![c] = tok]
  /\ credentials' = [credentials EXCEPT ![c] = cred]
  /\ expectedPackageName' = [expectedPackageName EXCEPT ![c] = exp]
  /\ UNCHANGED <<response, authorization>>
  /\ IF ValidationFails(exp)
       THEN /\ Settle(c, Throw(NewError(RequiredMsg)))
            /\ UNCHANGED <<authClients, requests>>
       ELSE IF IsNullish(cred)
         THEN /\ Settle(c, Throw(NewError(CredentialsTypeErrorMsg)))
              /\ UNCHANGED <<authClients, requests>>
         ELSE /\ authClients' = [authClients EXCEPT ![c] = Append(@, GoogleAuth(cred))]
              /\ requests' = [requests EXCEPT ![c] = Append(@, DecodeRequest(tok, exp))]
              /\ pc' = [pc EXCEPT ![c] = "awaiting"]
              /\ UNCHANGED <<caught, outcome>>

\* Mutant: the payload re-shaped on the way out.
CrossCheckReshaping(exp, result) ==
  Return([result EXCEPT !.appIntegrity = Undefined])

\* Lines 73-84: the cross-check of the returned identifiers, then the return.
CrossCheck(exp, result) ==
  LET app == OptPackageName(result.appIntegrity)
      req == OptRequestPackageName(result.requestDetails)
  IN  IF Truthy(app) /\ app # exp
        THEN Throw(NewError(PackageMismatchMsg(exp, app)))
      ELSE IF Truthy(req) /\ req # exp
        THEN Throw(NewError(RequestMismatchMsg(exp, req)))
      ELSE Return(result)

\* Mutant: a missing payload returned instead of thrown.
AfterDecodeNoPayloadCheck(exp, data) ==
  LET result == data.tokenPayloadExternal IN
  IF ~Truthy(result) THEN Return(result) ELSE CrossCheck(exp, result)

\* Lines 69-84: what the try block does with a fulfilled decode.
AfterDecode(exp, data) ==
  LET result == data.tokenPayloadExternal IN
  IF ~Truthy(result)
    THEN Throw(NewError(NoPayloadMsg))
    ELSE CrossCheck(exp, result)

\* Mutant: the expected name kept in one module-level variable that the latest
\* started call overwrites.
SharedExpected(c) ==
  LET started == {d \in Calls : pc[d] # "idle"}
  IN  expectedPackageName[CHOOSE d \in started : \A e \in started : d >= e]

\* The expectedPackageName a resumed call reads: its own parameter.
ClosureExpected(c) == expectedPackageName[c]

\* await decodeIntegrityToken(...) fulfils with a response.
DecodeResolves(c, data) ==
  /\ pc[c] = "awaiting"
  /\ response' = [response EXCEPT ![c] = Fulfilled(data)]
  /\ Settle(c, AfterDecode(ClosureExpected(c), data))
  /\ UNCHANGED <<token, credentials, expectedPackageName, authClients, requests,
                 authorization>>

\* await decodeIntegrityToken(...) rejects: authentication or transport failure.
DecodeRejects(c, e) ==
  /\ pc[c] = "awaiting"
  /\ response' = [response EXCEPT ![c] = Failed(e)]
  /\ Settle(c, Throw(e))
  /\ UNCHANGED <<token, credentials, expectedPackageName, authClients, requests,
                 authorization>>

\* One invocation, every argument and every way the remote call can settle.
Next ==
  \/ \E tok \in Tokens, cred \in Credentials, exp \in ExpectedNames :
       Invoke(MainCall, tok, cred, exp)
  \/ \E data \in ResponseData : DecodeResolves(MainCall, data)
  \/ \E e \in ThrownValues : DecodeRejects(MainCall, e)

Spec == Init /\ [][Next]_vars

\* Two or more invocations in flight together: any call may take its next step
\* at any time.  The arguments and responses come from small sets that still
\* differ between calls (other token, other credentials, other package).
ConcurrentArgs ==
  {<<"T1", ServiceAccount("sa1"), Str(<<"a">>)>>,
   <<"T2", ServiceAccount("sa2"), Str(<<"a", "a">>)>>,
   <<"T1", ServiceAccount("sa1"), Str(<<>>)>>}

NamedPayload(s) ==
  [type |-> "object",
   appIntegrity |-> [type |-> "object", packageName |-> Str(s),
                     appRecognitionVerdict |-> Undefined],
   requestDetails |-> Undefined]

ConcurrentResponses ==
  {[tokenPayloadExternal |-> p] :
     p \in {Undefined, NamedPayload(<<"a">>), NamedPayload(<<"a", "a">>)}}

NextConcurrent ==
  \E c \in Calls :
    \/ \E a \in ConcurrentArgs : Invoke(c, a[1], a[2], a[3])
    \/ \E data \in ConcurrentResponses : DecodeResolves(c, data)
    \/ \E e \in {NewError(<<"PERMISSION_DENIED">>)} : DecodeRejects(c, e)

SpecConcurrent == Init /\ [][NextConcurrent]_vars

\* ------------------------------------------ part_000, the superseded variant
AxiosError(msg, api) == [type |-> "AxiosError", message |-> msg, apiMessage |-> api]
IsAxiosError(e) == e.type = "AxiosError"

\* error.response?.data?.error?.message of an AxiosError: absent without a
\* response body, else what the API put there.
AxiosErrors ==
  {AxiosError(<<"Request failed with status code 403">>, api) :
     api \in {Undefined, Str(<<>>), Str(<<"PERMISSION_DENIED">>)}}

\* The catch block of part_000.
LegacyWrap(e) ==
  IF IsAxiosError(e)
    THEN NewError(<<Prefix>> \o
           (IF Truthy(e.apiMessage) THEN ToText(e.apiMessage) ELSE e.message))
    ELSE NewError(<<Prefix>> \o (IF InstanceOfError(e) THEN e.message ELSE UnknownMsg))

LegacySettle(c, completion) ==
  /\ pc' = [pc EXCEPT ![c] = "done"]
  /\ IF completion.kind = "return"
       THEN /\ outcome' = [outcome EXCEPT ![c] = Resolved(completion.value)]
            /\ UNCHANGED caught
       ELSE /\ outcome' = [outcome EXCEPT ![c] = Rejected(LegacyWrap(completion.error))]
            /\ caught' = [caught EXCEPT ![c] = completion.error]

\* new JWT({email, key, scopes})
JWT(cred) ==
  [email |-> cred.clientEmail, key |-> cred.privateKey, scopes |-> <<Scope>>]

\* What authorize() may fulfil with.
AuthorizeResults ==
  {[access_token |-> t] : t \in {Undefined, Str(<<>>), Str(<<"ya29">>)}}

\* Mutant: the access-token check left out.
AccessTokenNeverMissing(tokens) == FALSE

\* if (!tokens.access_token)

AccessTokenMissing(tokens) == ~Truthy(tokens.access_token)

\* The arguments of axios.post.
LegacyPost(tok, tokens) ==
  [url |-> "https://playintegrity.googleapis.com/v1:decodeIntegrityToken",
   integrityToken |-> tok,
   Authorization |-> <<"Bearer ">> \o ToText(tokens.access_token)]

\* The call, up to the await of jwtClient.authorize().
LegacyInvoke(c, tok, cred) ==
  /\ pc[c] = "idle"
  /\ token' = [token EXCEPT ![c] = tok]
  /\ credentials' = [credentials EXCEPT ![c] = cred]
  /\ UNCHANGED <<expectedPackageName, requests, response, authorization>>
  /\ IF IsNullish(cred)
       THEN /\ LegacySettle(c, Throw(NewError(CredentialsTypeErrorMsg)))
            /\ UNCHANGED authClients
       ELSE /\ authClients' = [authClients EXCEPT ![c] = Append(@, JWT(cred))]
            /\ pc' = [pc EXCEPT ![c] = "authorizing"]
            /\ UNCHANGED <<caught, outcome>>

\* await jwtClient.authorize() fulfils: check the access token, then post.
AuthorizeResolves(c, tokens) ==
  /\ pc[c] = "authorizing"
  /\ authorization' = [authorization EXCEPT ![c] = Fulfilled(tokens)]
  /\ UNCHANGED <<token, credentials, expectedPackageName, authClients, response>>
  /\ IF AccessTokenMissing(tokens)
       THEN /\ LegacySettle(c, Throw(NewError(NoAccessTokenMsg)))
            /\ UNCHANGED requests
       ELSE /\ requests' = [requests EXCEPT ![c] = Append(@, LegacyPost(token[c], tokens))]
            /\ pc' = [pc EXCEPT ![c] = "awaiting"]
            /\ UNCHANGED <<caught, outcome>>

\* await jwtClient.authorize() rejects.
AuthorizeRejects(c, e) ==
  /\ pc[c] = "authorizing"
  /\ authorization' = [authorization EXCEPT ![c] = Failed(e)]
  /\ LegacySettle(c, Throw(e))
  /\ UNCHANGED <<token, credentials, expectedPackageName, authClients, requests,
                 response>>

\* await axios.post(...) fulfils: return response.data.tokenPayloadExternal.
PostResolves(c, data) ==
  /\ pc[c] = "awaiting"
  /\ response' = [response EXCEPT ![c] = Fulfilled(data)]
  /\ LegacySettle(c, Return(data.tokenPayloadExternal))
  /\ UNCHANGED <<token, credentials, expectedPackageName, authClients, requests,
                 authorization>>

\* await axios.post(...) rejects.
PostRejects(c, e) ==
  /\ pc[c] = "awaiting"
  /\ response' = [response EXCEPT ![c] = Failed(e)]
  /\ LegacySettle(c, Throw(e))
  /\ UNCHANGED <<token, credentials, expectedPackageName, authClients, requests,
                 authorization>>

NextLegacy ==
  \/ \E tok \in Tokens, cred \in Credentials : LegacyInvoke(MainCall, tok, cred)
  \/ \E tokens \in AuthorizeResults : AuthorizeResolves(MainCall, tokens)
  \/ \E e \in ThrownValues : AuthorizeRejects(MainCall, e)
  \/ \E data \in ResponseData : PostResolves(MainCall, data)
  \/ \E e \in AxiosErrors \cup ThrownValues : PostRejects(MainCall, e)

SpecLegacy == Init /\ [][NextLegacy]_vars

\* ------------------------------------------------------------------ claims
\* s occurs in msg as a run of consecutive symbols.
Contains(msg, s) ==
  \E i \in 1..(Len(msg) - Len(s) + 1) : SubSeq(msg, i, i + Len(s) - 1) = s

\* Empty, missing or whitespace-only, said without trim().
IsBlank(exp) ==
  \/ exp = Undefined
  \/ IsString(exp) /\ \A i \in 1..Len(exp.chars) : exp.chars[i] = " "

FulfilledWith(c) == response[c].data.tokenPayloadExternal
HasPayload(c) ==
  response[c].settled = "fulfilled" /\ FulfilledWith(c).type = "object"
ReturnedAppName(c) == OptPackageName(FulfilledWith(c).appIntegrity)
ReturnedRequestName(c) == OptRequestPackageName(FulfilledWith(c).requestDetails)
RejectedMessage(c) == outcome[c].error.message

\* C1: a call whose expectedPackageName is empty, missing or whitespace-only
\* rejects with the 'Expected package name is required' cause, and in no state
\* of its run has it built an auth client or issued a decode request.
C1_BlankExpectedRejectsBeforeNetwork ==
  \A c \in Calls :
    (pc[c] # "idle" /\ IsBlank(expectedPackageName[c])) =>
      /\ pc[c] = "done"
      /\ outcome[c] = Rejected(NewError(<<Prefix>> \o RequiredMsg))
      /\ authClients[c] = <<>>
      /\ requests[c] = <<>>

C1_Witness ==
  \E c \in Calls :
    /\ pc[c] = "done"
    /\ IsString(expectedPackageName[c])
    /\ expectedPackageName[c].chars # <<>>
    /\ IsBlank(expectedPackageName[c])
    /\ credentials[c] # Undefined

\* The text of whatever was thrown: an Error's message, a thrown string itself.
CauseText(e) == IF InstanceOfError(e) THEN e.message ELSE ToText(e)

C3_AppMismatchRejects ==
  \A c \in Calls :
    (HasPayload(c) /\ IsString(ReturnedAppName(c))
       /\ ReturnedAppName(c) # expectedPackageName[c]) =>
      /\ outcome[c].kind = "rejected"
      /\ RejectedMessage(c)[2] = "Package name mismatch: expected "
      /\ Contains(RejectedMessage(c), expectedPackageName[c].chars)
      /\ Contains(RejectedMessage(c), ReturnedAppName(c).chars)

\* C4: a fulfilled response whose payload has requestDetails.requestPackageName
\* present and different from expectedPackageName is rejected with a mismatch
\* error carrying both values, whether appIntegrity is absent, has no
\* packageName or has a packageName equal to expectedPackageName.
C4_RequestMismatchRejects ==
  \A c \in Calls :
    (HasPayload(c) /\ IsString(ReturnedRequestName(c))
       /\ ReturnedRequestName(c) # expectedPackageName[c]
       /\ ReturnedAppName(c) \in {Undefined, expectedPackageName[c]}) =>
      /\ outcome[c].kind = "rejected"
      /\ RejectedMessage(c)[2] = "Request package name mismatch: expected "
      /\ Contains(RejectedMessage(c), expectedPackageName[c].chars)
      /\ Contains(RejectedMessage(c), ReturnedRequestName(c).chars)

\* C5: a fulfilled response whose tokenPayloadExternal is absent or empty
\* (undefined, null, '') is rejected with the 'No token payload received'
\* cause, which is neither mismatch error, and no call resolves with such a
\* value.
C5_MissingPayloadRejects ==
  \A c \in Calls :
    /\ (response[c].settled = "fulfilled" /\ FulfilledWith(c).type # "object") =>
         /\ outcome[c] = Rejected(NewError(<<Prefix>> \o NoPayloadMsg))
         /\ \A exp \in ExpectedNames, got \in OptNames :
              /\ caught[c].message # PackageMismatchMsg(exp, got)
              /\ caught[c].message # RequestMismatchMsg(exp, got)
    /\ outcome[c].kind = "resolved" => outcome[c].value.type = "object"

C5_Witness ==
  \E c \in Calls :
    /\ response[c].settled = "fulfilled"
    /\ FulfilledWith(c) = Undefined
    /\ outcome[c].kind = "rejected"

\* C6: whenever the call resolves, its value is exactly the payload the decode
\* call returned; and every payload without a package-identifier field is
\* returned as it is.
C6_ResolvesWithPayloadUnchanged ==
  \A c \in Calls :
    /\ outcome[c].kind = "resolved" =>
         response[c].settled = "fulfilled" /\ outcome[c].value = FulfilledWith(c)
    /\ (HasPayload(c) /\ ReturnedAppName(c) = Undefined
          /\ ReturnedRequestName(c) = Undefined) =>
         outcome[c] = Resolved(FulfilledWith(c))

C6_Witness ==
  \E c \in Calls :
    /\ outcome[c].kind = "resolved"
    /\ ReturnedAppName(c) = Undefined
    /\ ReturnedRequestName(c) = Undefined
    /\ FulfilledWith(c).appIntegrity # Undefined
    /\ Truthy(FulfilledWith(c).appIntegrity.appRecognitionVerdict)

\* C7: the call resolves only when the package name the decoded payload
\* carries, appIntegrity.packageName and requestDetails.requestPackageName,
\* is expectedPackageName.
C7_ResolvesOnlyForExpectedPackage ==
  \A c \in Calls :
    outcome[c].kind = "resolved" =>
      /\ ReturnedAppName(c) = expectedPackageName[c]
      /\ ReturnedRequestName(c) = expectedPackageName[c]

\* C9: a call issues at most one decode request, carrying its own
\* expectedPackageName and token; once the request has settled the call is
\* over, with exactly one outcome, and neither a further request nor a second
\* outcome follows.
C9_OneRequestOneOutcome ==
  /\ [](\A c \in Calls :
          /\ Len(requests[c]) <= 1
          /\ \A i \in 1..Len(requests[c]) :
               requests[c][i] = [packageName |-> expectedPackageName[c],
                                 integrityToken |-> token[c]]
          /\ response[c] # NotSettled => pc[c] = "done" /\ Len(requests[c]) = 1
          /\ pc[c] = "done" <=> outcome[c].kind \in {"resolved", "rejected"})
  /\ [][\A c \in Calls :
          pc[c] = "done" => requests'[c] = requests[c] /\ outcome'[c] = outcome[c]]_vars

C9_Witness ==
  \E c \in Calls :
    /\ pc[c] = "done"
    /\ response[c].settled = "rejected"
    /\ Len(requests[c]) = 1

\* What call c's own arguments and own response make of it, read from no
\* other call.
OwnOutcome(c) ==
  IF IsBlank(expectedPackageName[c])
    THEN Rejected(NewError(<<Prefix>> \o RequiredMsg))
  ELSE IF credentials[c] = Undefined
    THEN Rejected(NewError(<<Prefix>> \o CredentialsTypeErrorMsg))
  ELSE IF response[c].settled = "rejected"
    THEN Rejected(Wrap(response[c].reason))
  ELSE LET done == AfterDecode(expectedPackageName[c], response[c].data)
       IN  IF done.kind = "return"
             THEN Resolved(done.value)
             ELSE Rejected(Wrap(done.error))

CallState(c) ==
  <<pc[c], token[c], credentials[c], expectedPackageName[c], authClients[c],
    requests[c], response[c], caught[c], outcome[c]>>

\* C8: under every interleaving of the calls, each call builds its own auth
\* client from its own credentials, a step of one call changes nothing of
\* another call, and the outcome of a finished call is the one its own
\* arguments and its own response determine.
C8_ConcurrentCallsIndependent ==
  /\ [](\A c \in Calls :
          /\ \A i \in 1..Len(authClients[c]) :
               authClients[c][i] = GoogleAuth(credentials[c])
          /\ pc[c] = "awaiting" => Len(authClients[c]) = 1
          /\ pc[c] = "done" => outcome[c] = OwnOutcome(c))
  /\ [][\A c \in Calls : pc'[c] = pc[c] => CallState(c)' = CallState(c)]_vars

C8_Witness ==
  \E c, d \in Calls :
    /\ pc[c] = "done" /\ outcome[c].kind = "resolved"
    /\ pc[d] = "done" /\ outcome[d].kind = "rejected"
    /\ response[d].settled = "fulfilled"
    /\ credentials[c] # credentials[d]
    /\ expectedPackageName[c] # expectedPackageName[d]
    /\ FulfilledWith(c) = FulfilledWith(d)

\* C10: in the two-argument variant the decode POST is sent only after
\* authorize() returned a non-empty access token; when authorize() fails or
\* yields no access_token the call rejects with the prefixed error and no POST
\* is sent; and a fulfilled POST resolves the call with whatever
\* tokenPayloadExternal holds, an absent payload and a payload naming any
\* package included.
C10_LegacyPostsOnlyWithAccessToken ==
  \A c \in Calls :
    /\ Len(requests[c]) <= 1
    /\ requests[c] # <<>> =>
         /\ authorization[c].settled = "fulfilled"
         /\ IsString(authorization[c].data.access_token)
         /\ authorization[c].data.access_token.chars # <<>>
         /\ requests[c][1].Authorization =
              <<"Bearer ">> \o authorization[c].data.access_token.chars
         /\ requests[c][1].integrityToken = token[c]
    /\ (\/ authorization[c].settled = "rejected"
        \/ /\ authorization[c].settled = "fulfilled"
           /\ authorization[c].data.access_token \in {Undefined, Str(<<>>)}) =>
         /\ outcome[c].kind = "rejected"
         /\ Head(RejectedMessage(c)) = Prefix
         /\ requests[c] = <<>>
    /\ response[c].settled = "fulfilled" => outcome[c] = Resolved(FulfilledWith(c))

C10_Witness ==
  \E c \in Calls :
    /\ outcome[c] = Resolved(Undefined)
    /\ Len(requests[c]) = 1

====
